---- MODULE Spec2Model ----
(***************************************************************************)
(* A model of mkdocs_build_plantuml_plugin/plantuml.py: the pre-build hook *)
(* of BuildPlantumlPlugin (on_pre_build), which for every diagram records  *)
(* modification times, flattens the include directives, encodes the        *)
(* flattened text and renders the normal and the dark variant.             *)
(*                                                                         *)
(* Text is modelled as sequences of one-character strings, so that strip,  *)
(* the regular expressions, slicing, split and replace are computed as the *)
(* code computes them.                                                     *)
(***************************************************************************)
EXTENDS Integers, Sequences, FiniteSets, TLC

(***************************************************************************)
(* Bounds of the model.                                                    *)
(***************************************************************************)
\* modification times of the files present before the build are 1..MaxTime
MaxTime == 2
\* number of diagrams the walk of the source directory discovers
NumDiagrams == 2
\* depth of nested _readFileRecursively calls after which the interpreter
\* raises RecursionError
MaxDepth == 3

(***************************************************************************)
(* Characters and strings.                                                 *)
(***************************************************************************)
Whitespace == {" ", "\t", "\n"}

Upper == <<"A","B","C","D","E","F","G","H","I","J","K","L","M",
           "N","O","P","Q","R","S","T","U","V","W","X","Y","Z">>

Lower == <<"a","b","c","d","e","f","g","h","i","j","k","l","m",
           "n","o","p","q","r","s","t","u","v","w","x","y","z">>

Digits == <<"0","1","2","3","4","5","6","7","8","9">>

\* string.digits + string.ascii_uppercase + string.ascii_lowercase + "-_"
plantuml_alphabet == Digits \o Upper \o Lower \o <<"-","_">>

\* string.ascii_uppercase + string.ascii_lowercase + string.digits + "+/"
base64_alphabet == Upper \o Lower \o Digits \o <<"+","/">>

\* s[n:] of Python, n counted from 0
DropFirst(s, n) == IF n >= Len(s) THEN <<>> ELSE SubSeq(s, n + 1, Len(s))

\* s.startswith(p)
StartsWith(s, p) == Len(s) >= Len(p) /\ SubSeq(s, 1, Len(p)) = p

RECURSIVE LStrip(_)
LStrip(s) == IF s /= <<>> /\ Head(s) \in Whitespace THEN LStrip(Tail(s)) ELSE s

\* s.rstrip()
RECURSIVE RStrip(_)
RStrip(s) ==
    IF s /= <<>> /\ s[Len(s)] \in Whitespace
    THEN RStrip(SubSeq(s, 1, Len(s) - 1))
    ELSE s

\* s.strip()
Strip(s) == RStrip(LStrip(s))

\* ''.join(lines)
RECURSIVE Join(_)
Join(lines) == IF lines = <<>> THEN <<>> ELSE Head(lines) \o Join(Tail(lines))

\* s.split(sep) for a one-character separator
RECURSIVE SplitAcc(_, _, _)
SplitAcc(s, sep, cur) ==
    IF s = <<>> THEN <<cur>>
    ELSE IF Head(s) = sep THEN <<cur>> \o SplitAcc(Tail(s), sep, <<>>)
    ELSE SplitAcc(Tail(s), sep, Append(cur, Head(s)))

Split(s, sep) == SplitAcc(s, sep, <<>>)

\* s.replace(old, new): every non-overlapping occurrence, left to right
RECURSIVE Replace(_, _, _)
Replace(s, old, new) ==
    IF s = <<>> \/ old = <<>> THEN s
    ELSE IF StartsWith(s, old) THEN new \o Replace(DropFirst(s, Len(old)), old, new)
    ELSE <<Head(s)>> \o Replace(Tail(s), old, new)

\* the tail  \s+\S+\s*$  of the three include patterns
MatchesArgument(rest) ==
    \E i \in 1..Len(rest) : \E j \in (i + 1)..Len(rest) :
        /\ \A n \in 1..i : rest[n] \in Whitespace
        /\ \A n \in (i + 1)..j : rest[n] \notin Whitespace
        /\ \A n \in (j + 1)..Len(rest) : rest[n] \in Whitespace

KwInclude == <<"!","i","n","c","l","u","d","e">>

KwIncludeUrl == KwInclude \o <<"u","r","l">>

KwIncludeSub == KwInclude \o <<"s","u","b">>

KwStartSub == <<"!","s","t","a","r","t","s","u","b">>

KwEndSub == <<"!","e","n","d","s","u","b">>

KwEndUml == <<"@","e","n","d","u","m","l">>

Http == <<"h","t","t","p">>

\* re.match(r"^!include", line)
MatchIncludePrefix(line) == StartsWith(line, KwInclude)

\* re.match(r"^!includeurl\s+\S+\s*$", line)
MatchIncludeUrl(line) ==
    StartsWith(line, KwIncludeUrl) /\ MatchesArgument(DropFirst(line, Len(KwIncludeUrl)))

\* re.match(r"^!includesub\s+\S+\s*$", line)
MatchIncludeSub(line) ==
    StartsWith(line, KwIncludeSub) /\ MatchesArgument(DropFirst(line, Len(KwIncludeSub)))

\* re.match(r"^!include\s+\S+\s*$", line)
MatchInclude(line) ==
    StartsWith(line, KwInclude) /\ MatchesArgument(DropFirst(line, Len(KwInclude)))

\* re.match(r"^!startsub\s+" + re.escape(name) + r"\s*$", line)
MatchStartSub(line, name) ==
    /\ StartsWith(line, KwStartSub)
    /\ LET rest == DropFirst(line, Len(KwStartSub))
       IN  /\ rest /= <<>>
           /\ Head(rest) \in Whitespace
           /\ StartsWith(LStrip(rest), name)
           /\ \A n \in 1..Len(DropFirst(LStrip(rest), Len(name))) :
                  DropFirst(LStrip(rest), Len(name))[n] \in Whitespace

\* re.match(r"^!endsub\s*$", line) or re.match(r"^@enduml\s*$", line)
MatchEndSub(line) == RStrip(line) = KwEndSub \/ RStrip(line) = KwEndUml

(***************************************************************************)
(* Text Encoder: base64.b64encode(...).translate(b64_to_plantuml).         *)
(* Bytes are numbers 0..255, base64 characters one-character strings.      *)
(***************************************************************************)
\* base64.b64encode: three bytes give four characters; a last group of one or
\* two bytes is padded with "="
RECURSIVE b64encode(_)
b64encode(bs) ==
    IF bs = <<>> THEN <<>>
    ELSE IF Len(bs) = 1 THEN
        << base64_alphabet[(bs[1] \div 4) + 1],
           base64_alphabet[((bs[1] % 4) * 16) + 1],
           "=", "=" >>
    ELSE IF Len(bs) = 2 THEN
        << base64_alphabet[(bs[1] \div 4) + 1],
           base64_alphabet[((bs[1] % 4) * 16 + (bs[2] \div 16)) + 1],
           base64_alphabet[((bs[2] % 16) * 4) + 1],
           "=" >>
    ELSE
        << base64_alphabet[(bs[1] \div 4) + 1],
           base64_alphabet[((bs[1] % 4) * 16 + (bs[2] \div 16)) + 1],
           base64_alphabet[((bs[2] % 16) * 4 + (bs[3] \div 64)) + 1],
           base64_alphabet[(bs[3] % 64) + 1] >>
        \o b64encode(DropFirst(bs, 3))

\* position of character c in alphabet, 0 when it is not in it
IndexIn(alphabet, c) ==
    IF \E i \in 1..Len(alphabet) : alphabet[i] = c
    THEN CHOOSE i \in 1..Len(alphabet) : alphabet[i] = c
    ELSE 0

\* the table maketrans(base64_alphabet, plantuml_alphabet) applied to one
\* character: a character the table does not name is kept
b64_to_plantuml(c) ==
    IF IndexIn(base64_alphabet, c) = 0 THEN c
    ELSE plantuml_alphabet[IndexIn(base64_alphabet, c)]

\* bytes.translate(b64_to_plantuml)
Translate(s) == [i \in 1..Len(s) |-> b64_to_plantuml(s[i])]

\* compressed_str[2:-4]: the stream without its 2-byte header and 4-byte trailer
StripZlib(stream) ==
    IF Len(stream) <= 6 THEN <<>> ELSE SubSeq(stream, 3, Len(stream) - 4)

\* _readFile, lines 286-292: the token of a zlib stream
Encode(stream) == Translate(b64encode(StripZlib(stream)))

(***************************************************************************)
(* State.                                                                  *)
(***************************************************************************)
VARIABLES
    config,     \* self.config: render, output_format, theme_enabled
    files,      \* the include files on disk: path -> modification time
    out,        \* the output files: diagram -> variant -> exists, mtime, content
    outDir,     \* whether the output directory (diagram.out_dir) exists
    tmp,        \* temporary files and directories left on disk
    k,          \* index of the diagram being processed, in discovery order
    pc,         \* position in the loop body of on_pre_build
    diagram,    \* the PuElement being processed
    flat,       \* what the last flatten pass returned or raised
    conv,       \* what the last _convert decided and did
    err,        \* the exception that left on_pre_build, "none" when none did
    sources,    \* the diagram source files: diagram -> lines
    srcTime     \* the diagram source files: diagram -> modification time

vars == <<config, files, out, outDir, tmp, k, pc, diagram, flat, conv, err,
          sources, srcTime>>

\* what no step of the build writes
inputs == <<config, files, sources, srcTime>>

(***************************************************************************)
(* Configuration values and the files of the model.                        *)
(***************************************************************************)
\* self.config["theme_light"], self.config["theme_dark"]: file names
theme_light == <<"l","t">>

theme_dark == <<"d","k">>

\* diagram.directory (the source folder) and diagram.root_dir
SrcDir == "src"

RootDir == "root"

Dirs == {SrcDir, RootDir}

\* (Path(directory) / inc_file).resolve() for a target that is a bare file name
PathOf(dir, name) == [dir |-> dir, name |-> name]

Ln(s) == s \o <<"\n">>

\* the first line of an include file tells the copy in the source folder ("S")
\* from the copy in the diagram root ("R")
Mark(dir) == IF dir = SrcDir THEN "S" ELSE "R"

\* the lines readlines() gives for the include file at path p
Content(p) ==
    CASE p.name = <<"a">> ->
            << Ln(<<Mark(p.dir), "a">>), Ln(KwInclude \o <<" ", "b">>) >>
      [] p.name = <<"b">> -> << Ln(<<Mark(p.dir), "b">>) >>
      [] p.name = theme_light -> << Ln(<<Mark(p.dir), "L">>) >>
      [] p.name = theme_dark -> << Ln(<<Mark(p.dir), "D">>) >>
      [] p.name = <<"s">> ->
            << Ln(<<"h">>), Ln(KwStartSub \o <<" ", "X">>), Ln(<<" ", "p">>),
               Ln(KwEndSub), Ln(<<"q">>) >>
      [] p.name = <<"i">> ->
            << Ln(KwIncludeSub \o <<" ", "s", "!", "X">>), Ln(KwInclude \o <<"x">>) >>
      [] p.name = <<"c">> -> << Ln(KwInclude \o <<" ", "c">>) >>
      [] OTHER -> << >>

\* Path.exists()
Exists(p) == p \in DOMAIN files

\* Path.stat().st_mtime
Mtime(p) == files[p]

(***************************************************************************)
(* Include Resolver.  A pass threads st = [inc_time, events, visited]:     *)
(* diagram.inc_time, and two records of what the pass did (the directives  *)
(* handled, the include files whose modification time was read).           *)
(* A result is [err, text, st]; err names the exception raised, "none"     *)
(* when the call returned text.                                            *)
(***************************************************************************)
Returned(text, st) == [err |-> "none", text |-> text, st |-> st]

Raised(e, st) == [err |-> e, text |-> <<>>, st |-> st]

\* kind: "url", "remote", "include", "sub" or "malformed"; line: the stripped
\* directive; dir: the folder of the file that holds it; target: the file name
\* looked up; used: "local", "root" or "none", the folder the file was found in
Event(kind, line, dir, dark, target, used) ==
    [kind |-> kind, line |-> line, dir |-> dir, dark |-> dark, target |-> target,
     used |-> used]

Note(st, ev) == [st EXCEPT !.events = @ \cup {ev}]

\* the fold without the comparison: inc_time is the mtime of the include file
\* read last
FoldIncTime_last(st, p) ==
    [st EXCEPT !.inc_time = IF Exists(p) THEN Mtime(p) ELSE 0,
               !.visited = IF Exists(p) THEN @ \cup {p} ELSE @]

\* lines 392-397 and 426-432: stat the include file and fold its mtime into
\* diagram.inc_time; a failing stat counts as 0
FoldIncTime(st, p) ==
    LET local_inc_time == IF Exists(p) THEN Mtime(p) ELSE 0
    IN  [st EXCEPT !.inc_time = IF local_inc_time > @ THEN local_inc_time ELSE @,
                   !.visited = IF Exists(p) THEN @ \cup {p} ELSE @]

\* preprocess_includes: the (index, stripped line) pairs of the include lines
preprocess_includes(lines) ==
    LET Pair(i) == <<i, Strip(lines[i])>>
        IsInc(pr) == MatchIncludePrefix(pr[2])
    IN  SelectSeq([i \in 1..Len(lines) |-> Pair(i)], IsInc)

\* lines 434-444 of _read_incl_sub: the stripped lines between a !startsub
\* marker of the name and the next !endsub or @enduml
RECURSIVE ExtractSub(_, _, _)
ExtractSub(lines, name, add_following) ==
    IF lines = <<>> THEN <<>>
    ELSE LET line == Strip(Head(lines))
         IN  IF MatchStartSub(line, name) THEN ExtractSub(Tail(lines), name, TRUE)
             ELSE IF MatchEndSub(line) THEN ExtractSub(Tail(lines), name, FALSE)
             ELSE IF add_following THEN <<line>> \o ExtractSub(Tail(lines), name, TRUE)
             ELSE ExtractSub(Tail(lines), name, FALSE)

\* lines 446-452: _read_incl_sub calls _readFileRecursively(temp_sub, temp_file,
\* diagram, directory, dark_mode), five arguments for four parameters: the call
\* raises TypeError before the body runs
readFileRecursively5(temp_sub, temp_file, st, dir, dark) == Raised("TypeError", st)

\* _read_incl_sub
read_incl_sub(st, temp_file, dark, inc_file_abs, inc_sub_name) ==
    LET st1 == FoldIncTime(st, inc_file_abs)
    IN  IF ~Exists(inc_file_abs) THEN Raised("FileNotFoundError", st1)
        ELSE readFileRecursively5(ExtractSub(Content(inc_file_abs), inc_sub_name, FALSE),
                                  temp_file, st1, inc_file_abs.dir, dark)

RECURSIVE readFileRecursively(_, _, _, _, _)
RECURSIVE process_includes(_, _, _, _, _, _)
RECURSIVE readIncludeLine(_, _, _, _, _)
RECURSIVE read_incl_line_file(_, _, _, _)

\* _read_incl_line_file with a visited-set guard: a file already read in this
\* pass contributes no text and is not read again
read_incl_line_file_visited(st, dark, inc_file_abs, depth) ==
    IF inc_file_abs \in st.visited THEN Returned(<<>>, st)
    ELSE IF ~Exists(inc_file_abs)
    THEN Raised("FileNotFoundError", FoldIncTime(st, inc_file_abs))
    ELSE readFileRecursively(FoldIncTime(st, inc_file_abs), Content(inc_file_abs),
                             inc_file_abs.dir, dark, depth + 1)

\* _read_incl_line_file
read_incl_line_file(st, dark, inc_file_abs, depth) ==
    LET st1 == FoldIncTime(st, inc_file_abs)
    IN  IF ~Exists(inc_file_abs) THEN Raised("FileNotFoundError", st1)
        ELSE readFileRecursively(st1, Content(inc_file_abs), inc_file_abs.dir,
                                 dark, depth + 1)

\* lines 322-346 of _readIncludeLine: the !includesub branch
IncludeSubBranch(st, line, dir, dark) ==
    LET \* lines 337-342: the second attempt, relative to the diagram root; its
        \* exception is not caught
        AfterRoot(inc_file, r2) ==
            IF r2.err = "none"
            THEN Returned(r2.text, Note(r2.st, Event("sub", line, dir, dark, inc_file, "root")))
            ELSE Raised(r2.err, Note(r2.st, Event("sub", line, dir, dark, inc_file, "none")))
        \* line 336: except Exception around the first attempt
        AfterLocal(inc_file, sub_name, r1) ==
            IF r1.err = "none"
            THEN Returned(r1.text, Note(r1.st, Event("sub", line, dir, dark, inc_file, "local")))
            ELSE AfterRoot(inc_file,
                           read_incl_sub(r1.st, <<>>, dark, PathOf(RootDir, inc_file), sub_name))
        \* lines 333-335: the first attempt, relative to the including file's folder
        Try(inc_file, sub_name) ==
            AfterLocal(inc_file, sub_name,
                       read_incl_sub(st, <<>>, dark, PathOf(dir, inc_file), sub_name))
        WithParts(parts) ==
            IF Len(parts) = 2
            THEN Try(IF dark THEN Replace(parts[1], theme_light, theme_dark) ELSE parts[1],
                     parts[2])
            ELSE Raised("Exception", Note(st, Event("malformed", line, dir, dark, <<>>, "none")))
    IN  WithParts(Split(Strip(DropFirst(line, 11)), "!"))

\* lines 348-373 of _readIncludeLine: the !include branch
IncludeBranch(st, line, dir, dark, depth) ==
    LET raw == RStrip(DropFirst(line, 9))
        inc_file == IF dark THEN Replace(raw, theme_light, theme_dark) ELSE raw
        inc_file_abs == PathOf(dir, inc_file)
        inc_file_abs_alt == PathOf(RootDir, inc_file)
        Guarded(r, used) ==
            \* except FileNotFoundError: print; the function then returns temp_file,
            \* still the empty string it was called with
            IF r.err = "FileNotFoundError"
            THEN Returned(<<>>, Note(r.st, Event("include", line, dir, dark, inc_file, used)))
            ELSE [r EXCEPT !.st = Note(@, Event("include", line, dir, dark, inc_file, used))]
    IN  IF StartsWith(inc_file, Http) \/ StartsWith(inc_file, <<"<">>)
        THEN Returned(line, Note(st, Event("remote", line, dir, dark, inc_file, "none")))
        ELSE IF Exists(inc_file_abs)
        THEN Guarded(read_incl_line_file(st, dark, inc_file_abs, depth), "local")
        ELSE IF Exists(inc_file_abs_alt)
        THEN Guarded(read_incl_line_file(st, dark, inc_file_abs_alt, depth), "root")
        ELSE Raised("Exception", Note(st, Event("include", line, dir, dark, inc_file, "none")))

\* _readIncludeLine, called with temp_file = ''
readIncludeLine(st, line, dir, dark, depth) ==
    IF MatchIncludeUrl(line)
    THEN Returned(line, Note(st, Event("url", line, dir, dark, <<>>, "none")))
    ELSE IF MatchIncludeSub(line) THEN IncludeSubBranch(st, line, dir, dark)
    ELSE IF MatchInclude(line) THEN IncludeBranch(st, line, dir, dark, depth)
    ELSE Raised("Exception", Note(st, Event("malformed", line, dir, dark, <<>>, "none")))

\* process_includes: each include line, in order, is replaced by what
\* _readIncludeLine returns for it; the first exception ends the loop
process_includes(st, include_lines, lines, dir, dark, depth) ==
    IF include_lines = <<>> THEN [err |-> "none", lines |-> lines, st |-> st]
    ELSE LET i == Head(include_lines)[1]
             line == Head(include_lines)[2]
             Store(r) ==
                 IF r.err /= "none" THEN [err |-> r.err, lines |-> lines, st |-> r.st]
                 ELSE process_includes(r.st, Tail(include_lines),
                                       [lines EXCEPT ![i] = r.text], dir, dark, depth)
         IN  Store(readIncludeLine(st, line, dir, dark, depth))

\* _readFileRecursively; nested deeper than the interpreter allows it raises
\* RecursionError
readFileRecursively(st, lines, dir, dark, depth) ==
    IF depth > MaxDepth THEN Raised("RecursionError", st)
    ELSE LET Joined(r) == IF r.err /= "none" THEN Raised(r.err, r.st)
                           ELSE Returned(Join(r.lines), r.st)
         IN  Joined(process_includes(st, preprocess_includes(lines), lines, dir, dark, depth))

(***************************************************************************)
(* Inputs of a build: the diagram sources, the renderer's answers.         *)
(***************************************************************************)
\* the line of a diagram source that the model varies
Directives ==
    << Ln(<<"A">>),
       Ln(KwInclude \o <<" ", "a">>),
       Ln(KwInclude \o <<" ">> \o theme_light),
       Ln(KwIncludeUrl \o <<" ">> \o Http \o <<":", "u">>),
       <<" ">> \o Ln(KwInclude \o <<" ", "<", "l", ">">>),
       Ln(KwInclude \o <<" ", " ", "b">>),
       Ln(KwIncludeSub \o <<" ", "s", "!", "X">>),
       Ln(KwIncludeSub \o <<" ", "s">>),
       Ln(KwInclude \o <<"x">>),
       Ln(KwInclude \o <<" ", "i">>),
       Ln(KwInclude \o <<" ", "c">>) >>

\* f.readlines() of a diagram source: a first line, the directive, a last line
SourceOf(directive) == << Ln(<<"u">>), directive, Ln(<<"v">>) >>

\* what zlib.compress returns is not computed here: it is one of the streams
\* zlib gives for the texts "" and "a", whose raw deflate blocks are 2 and 3
\* bytes long
ZlibStreams ==
    { <<120, 156, 3, 0, 0, 0, 0, 1>>,
      <<120, 156, 75, 4, 0, 0, 98, 0, 98>> }

\* the bytes a renderer (server or local binary) produces: an SVG document,
\* text that is no XML, bytes that are no UTF-8
Bodies == {"svg", "text", "bin"}

\* content.decode("utf-8") succeeds
Decodable(body) == body /= "bin"

\* etree.fromstring succeeds
ParsesAsXml(body) == body = "svg"

\* _pretty_print_svg: the pretty-printed document, the raw content on failure
pretty_print_svg(content) ==
    IF ParsesAsXml(content.data) THEN [content EXCEPT !.pretty = TRUE] ELSE content

\* what the server answers to a GET: a status with a body, or no answer
Responses ==
    [status : {200}, body : Bodies] \cup {[status |-> 404, body |-> "text"]}
    \cup {[status |-> 0, body |-> "text"]}

\* status 0 stands for http.request raising
TransportError(resp) == resp.status = 0

\* the time of the build, which stamps the files it writes: later than the
\* modification time of every file present before it
Now == MaxTime + 1

\* the file PlantUML writes for the configured format, "none" when it writes
\* no file
Generated == {"none", IF config.output_format = "svg" THEN "svg" ELSE "bin"}

NoFile == [exists |-> FALSE, mtime |-> 0, content |-> [data |-> "none", pretty |-> FALSE]]

OldFile(t) == [exists |-> TRUE, mtime |-> t, content |-> [data |-> "old", pretty |-> FALSE]]

Written(t, content) == [exists |-> TRUE, mtime |-> t, content |-> content]

Raw(body) == [data |-> body, pretty |-> FALSE]

Variants == {"normal", "dark"}

DiagramIds == 1..NumDiagrams

\* PuElement.__init__
PuElement(src_file) ==
    [src_file |-> src_file, img_time |-> 0, img_time_dark |-> 0, inc_time |-> 0,
     src_time |-> 0, b64encoded |-> <<>>, concat_file |-> <<>>]

NoFlat == [dark |-> FALSE, err |-> "idle", text |-> <<>>,
           st |-> [inc_time |-> 0, events |-> {}, visited |-> {}]]

\* the record of a _convert call: the diagram, the variant, its output file
\* before the call, the render made ("none", "server" or "local"), the token and format of the
\* request, the status and body of the answer, the inc_time and src_time the
\* decision used and those the normal decision of the same diagram used
NoConv == [id |-> 0, variant |-> "none", pre |-> NoFile, mode |-> "none", token |-> <<>>,
           status |-> 0, body |-> "none", inc |-> 0, src |-> 0,
           normalInc |-> 0, normalSrc |-> 0]

(***************************************************************************)
(* The state before the build.                                             *)
(***************************************************************************)
Group1 == { <<"a">>, <<"i">>, theme_light, <<"c">> }

Group2 == { <<"b">>, <<"s">>, theme_dark }

Placed(names, dirs) == { PathOf(d, n) : d \in dirs, n \in names }

\* the include files of group 1 in the folders loc1 with mtime t1, those of
\* group 2 in the folders loc2 with mtime t2
Layout(loc1, loc2, t1, t2) ==
    [p \in Placed(Group1, loc1) \cup Placed(Group2, loc2) |->
        IF p.name \in Group1 THEN t1 ELSE t2]

Configs == [render : {"server", "local"}, output_format : {"png", "svg"},
            theme_enabled : BOOLEAN]

OutputState(t) == IF t = 0 THEN NoFile ELSE OldFile(t)

\* the sources of the diagrams: consecutive entries of Directives from first on
SourcesFrom(first) ==
    [j \in DiagramIds |->
        SourceOf(Directives[((first + j - 2) % Len(Directives)) + 1])]

InitWith(configs, locs, firsts, outTimes) ==
    /\ config \in configs
    /\ \E loc1 \in locs, loc2 \in locs, t1 \in 1..MaxTime, t2 \in 1..MaxTime :
           files = Layout(loc1, loc2, t1, t2)
    /\ \E tn \in outTimes, td \in outTimes :
           /\ out = [j \in DiagramIds |-> [normal |-> OutputState(tn),
                                           dark |-> OutputState(td)]]
           /\ outDir \in (IF tn = 0 /\ td = 0 THEN BOOLEAN ELSE {TRUE})
    /\ tmp = [puml |-> 0, dirs |-> 0]
    /\ k = 1
    /\ pc = "start"
    /\ diagram = PuElement(<<>>)
    /\ \E first \in firsts : sources = SourcesFrom(first)
    /\ \E ts \in 1..MaxTime : srcTime = [j \in DiagramIds |-> ts]
    /\ flat = NoFlat
    /\ conv = NoConv
    /\ err = "none"

(***************************************************************************)
(* on_pre_build, one action per statement of the loop body.                *)
(***************************************************************************)
\* lines 126-137: the descriptor of the next diagram and its source lines
Discover ==
    /\ pc = "start"
    /\ diagram' = PuElement(sources[k])
    /\ flat' = NoFlat
    /\ conv' = NoConv
    /\ pc' = "mtimes"
    /\ UNCHANGED <<inputs, out, outDir, tmp, k, err>>

\* the try/except around Path(...).stat().st_mtime of lines 237-245
StatOrZero(file) == IF file.exists THEN file.mtime ELSE 0

\* _build_mtimes
build_mtimes(d) ==
    [d EXCEPT !.img_time = StatOrZero(out[k].normal),
              !.img_time_dark = StatOrZero(out[k].dark),
              !.src_time = srcTime[k],
              !.inc_time = 0]

BuildMtimes ==
    /\ pc = "mtimes"
    /\ diagram' = build_mtimes(diagram)
    /\ pc' = "read"
    /\ UNCHANGED <<inputs, out, outDir, tmp, k, flat, conv, err>>

\* _readFile(diagram, dark_mode): flatten, then compress and encode; an
\* exception of the flatten pass leaves on_pre_build
ReadFileStep(dark) ==
    LET Flattened(r) ==
            /\ flat' = [dark |-> dark, err |-> r.err, text |-> r.text, st |-> r.st]
            /\ IF r.err /= "none"
               THEN /\ diagram' = [diagram EXCEPT !.inc_time = r.st.inc_time]
                    /\ pc' = "raised"
                    /\ err' = r.err
               ELSE /\ \E stream \in ZlibStreams :
                           diagram' = [diagram EXCEPT !.inc_time = r.st.inc_time,
                                                      !.b64encoded = Encode(stream),
                                                      !.concat_file = r.text]
                    /\ pc' = IF dark THEN "convertDark" ELSE "convert"
                    /\ err' = err
    IN  /\ Flattened(readFileRecursively(
                         [inc_time |-> diagram.inc_time, events |-> {}, visited |-> {}],
                         diagram.src_file, SrcDir, dark, 1))
        /\ UNCHANGED <<inputs, out, outDir, tmp, k, conv>>

ReadFile == pc = "read" /\ ReadFileStep(FALSE)

ReadFileDark == pc = "readDark" /\ ReadFileStep(TRUE)

\* needs_conversion with <= for <: an output as old as its source is rebuilt
needs_conversion_le(d, dark_mode) ==
    IF ~dark_mode
    THEN (d.img_time <= d.src_time) \/ (d.inc_time > d.img_time)
    ELSE (d.img_time_dark <= d.src_time) \/ (d.inc_time > d.img_time_dark)

\* needs_conversion without the check: every variant is rebuilt
needs_conversion_always(d, dark_mode) == TRUE

\* lines 490-500 of _convert
needs_conversion(d, dark_mode) ==
    IF ~dark_mode
    THEN (d.img_time < d.src_time) \/ (d.inc_time > d.img_time)
    ELSE (d.img_time_dark < d.src_time) \/ (d.inc_time > d.img_time_dark)

VariantOf(dark_mode) == IF dark_mode THEN "dark" ELSE "normal"

\* the statement after _convert: the dark pass, the next diagram, or the end
AfterConvert(dark_mode) ==
    IF ~dark_mode THEN /\ pc' = "readDark"
                       /\ k' = k
    ELSE IF k < NumDiagrams THEN /\ pc' = "start"
                                /\ k' = k + 1
    ELSE /\ pc' = "done"
         /\ k' = k

\* an isolation boundary around each diagram: the exception is recorded and the
\* loop goes on with the next diagram
Propagate_continue(e) ==
    /\ err' = e
    /\ pc' = IF k < NumDiagrams THEN "start" ELSE "done"
    /\ k' = IF k < NumDiagrams THEN k + 1 ELSE k

\* an exception leaves _convert and on_pre_build
Propagate(e) ==
    /\ pc' = "raised"
    /\ err' = e
    /\ k' = k

\* lines 620-629 and 563-571: the text to write; "UnicodeDecodeError" when the
\* bytes cannot be decoded
FormattedSvg(body) ==
    IF config.output_format = "svg" THEN pretty_print_svg(Raw(body)) ELSE Raw(body)

\* _call_server followed by lines 562-575 of _convert: _call_server returns
\* None on every path that returns, and _convert then calls content.decode
ConvertServer(v, resp) ==
    IF TransportError(resp)
    THEN /\ Propagate("ServerError")
         /\ UNCHANGED <<out, outDir, tmp>>
    ELSE IF resp.status /= 200
    THEN /\ Propagate("AttributeError")
         /\ UNCHANGED <<out, outDir, tmp>>
    ELSE IF ~Decodable(resp.body)
    THEN /\ outDir' = TRUE
         /\ Propagate("UnicodeDecodeError")
         /\ UNCHANGED <<out, tmp>>
    ELSE /\ outDir' = TRUE
         /\ out' = [out EXCEPT ![k][v] = Written(Now, FormattedSvg(resp.body))]
         /\ Propagate("AttributeError")
         /\ UNCHANGED tmp

\* lines 546-556: the SVG file is read, pretty-printed and written back; any
\* exception is printed and the file stays as moved
FormatMoved(body) ==
    IF config.output_format = "svg" /\ Decodable(body)
    THEN pretty_print_svg(Raw(body)) ELSE Raw(body)

\* the temporary .puml file of lines 513-517 is created with delete=False and
\* never removed
TmpAfterLocal == IF config.theme_enabled THEN [tmp EXCEPT !.puml = @ + 1] ELSE tmp

\* lines 505-556 of _convert: generated is "none" when PlantUML wrote no file
ConvertLocal(v, dark_mode, generated) ==
    /\ tmp' = TmpAfterLocal
    /\ IF generated = "none"
       THEN /\ Propagate("RuntimeError")
            /\ UNCHANGED <<out, outDir>>
       ELSE IF ~outDir
       THEN /\ Propagate("FileNotFoundError")
            /\ UNCHANGED <<out, outDir>>
       ELSE /\ out' = [out EXCEPT ![k][v] = Written(Now, FormatMoved(generated))]
               /\ AfterConvert(dark_mode)
            /\ err' = err
            /\ UNCHANGED outDir

\* _convert(diagram, dark_mode)
ConvertStep(dark_mode) ==
    LET v == VariantOf(dark_mode)
        needs == needs_conversion(diagram, dark_mode)
        Record(mode, token, status, body) ==
            [id |-> k, variant |-> v, pre |-> out[k][v], mode |-> mode, token |-> token,
             status |-> status, body |-> body,
             inc |-> diagram.inc_time, src |-> diagram.src_time,
             normalInc |-> IF dark_mode THEN conv.normalInc ELSE diagram.inc_time,
             normalSrc |-> IF dark_mode THEN conv.normalSrc ELSE diagram.src_time]
    IN  /\ IF ~needs
           THEN /\ AfterConvert(dark_mode)
                /\ conv' = Record("none", <<>>, 0, "none")
                /\ UNCHANGED <<out, outDir, tmp, err>>
           ELSE IF config.render = "local"
           THEN \E generated \in Generated :
                    /\ ConvertLocal(v, dark_mode, generated)
                    /\ conv' = Record("local", <<>>, 0, generated)
           ELSE \E resp \in Responses :
                    /\ ConvertServer(v, resp)
                    /\ conv' = Record("server", diagram.b64encoded, resp.status,
                                      resp.body)
        /\ UNCHANGED <<inputs, diagram, flat>>

Convert == pc = "convert" /\ ConvertStep(FALSE)

ConvertDark == pc = "convertDark" /\ ConvertStep(TRUE)

\* the builds that vary the configuration and the modification times: every
\* include file is in the source folder, the sources are the first directives
Init == InitWith(Configs, {{SrcDir}}, 1..3, 0..MaxTime)

\* the builds that vary the include directives and where the include files are
InitResolver ==
    InitWith({[render |-> "server", output_format |-> "svg", theme_enabled |-> FALSE],
              [render |-> "local", output_format |-> "png", theme_enabled |-> TRUE]},
             SUBSET Dirs, 1..Len(Directives), {0, MaxTime})

Next == Discover \/ BuildMtimes \/ ReadFile \/ Convert \/ ReadFileDark \/ ConvertDark

Spec == Init /\ [][Next]_vars

SpecResolver == InitResolver /\ [][Next]_vars

(***************************************************************************)
(* Properties.                                                             *)
(***************************************************************************)
\* the modification time of a file, 0 for a file that does not exist
OutputMtime(file) == IF file.exists THEN file.mtime ELSE 0

\* the staleness rule: output_mtime < source_mtime or include_mtime > output_mtime
Stale(output_mtime, source_mtime, include_mtime) ==
    output_mtime < source_mtime \/ include_mtime > output_mtime

\* C1: for each variant _convert renders exactly when the variant's output is
\* older than the source or older than the newest include, the output's time
\* being the one _build_mtimes recorded, 0 for an output file that does not exist
C1_RendersExactlyWhenStale ==
    conv.variant /= "none" =>
        /\ (conv.mode /= "none") <=>
               Stale(OutputMtime(conv.pre), srcTime[conv.id], conv.inc)
        /\ OutputMtime(conv.pre) =
               IF conv.variant = "dark" THEN diagram.img_time_dark ELSE diagram.img_time

\* C1 witness: the dark variant is rendered although its output is not older
\* than the source, because an include is newer than the output
C1_Witness ==
    /\ conv.variant = "dark"
    /\ conv.mode /= "none"
    /\ conv.pre.exists
    /\ conv.pre.mtime >= srcTime[conv.id]
    /\ conv.inc > conv.pre.mtime

\* C2: in server mode a stale variant whose request is answered with status 200
\* is rendered without an exception, and afterwards the output directory exists
\* and the output file holds the body, pretty-printed when the format is svg
C2_ServerSuccessWritesAndReturns ==
    (conv.mode = "server" /\ conv.status = 200) =>
        /\ err = "none"
        /\ outDir
        /\ out[conv.id][conv.variant] = Written(Now, FormattedSvg(conv.body))

\* C3: in server mode an answer with another status than 200 is a skip: no
\* exception leaves on_pre_build and the output file is not written
C3_ServerBadStatusIsSkipped ==
    (conv.mode = "server" /\ conv.status \notin {0, 200}) =>
        /\ err = "none"
        /\ pc /= "raised"
        /\ out[conv.id][conv.variant] = conv.pre

\* C4: a _convert call whose staleness check is false renders nothing and
\* leaves every file, the output directory and the temporary files as they were
C4_FreshVariantUntouched ==
    [][ \A dark_mode \in BOOLEAN :
          ( /\ pc = (IF dark_mode THEN "convertDark" ELSE "convert")
            /\ ~Stale(OutputMtime(out[k][VariantOf(dark_mode)]),
                      srcTime[k], diagram.inc_time) )
          => /\ out' = out
             /\ outDir' = outDir
             /\ tmp' = tmp
             /\ conv'.mode = "none"
             /\ err' = "none" ]_vars

\* C4 witness: _convert has run for the normal variant of a diagram whose
\* output file exists and is fresh, and has rendered nothing
C4_Witness ==
    /\ pc = "readDark"
    /\ conv.variant = "normal"
    /\ conv.mode = "none"
    /\ conv.pre.exists
    /\ out[conv.id].normal = conv.pre

\* the lines strictly between a !startsub marker of the name and the next
\* !endsub or @enduml
RECURSIVE LinesBetween(_, _, _)
LinesBetween(lines, name, inside) ==
    IF lines = <<>> THEN <<>>
    ELSE IF MatchStartSub(Strip(Head(lines)), name)
    THEN LinesBetween(Tail(lines), name, TRUE)
    ELSE IF MatchEndSub(Strip(Head(lines))) THEN LinesBetween(Tail(lines), name, FALSE)
    ELSE IF inside THEN <<Head(lines)>> \o LinesBetween(Tail(lines), name, TRUE)
    ELSE LinesBetween(Tail(lines), name, FALSE)

\* the file an include target resolves to: the one in the folder of the
\* including file when it exists, otherwise the one in the diagram root
Resolved(dir, target) ==
    IF Exists(PathOf(dir, target)) THEN PathOf(dir, target) ELSE PathOf(RootDir, target)

\* C5: a pass over a source whose directive is !includesub <file>!X, the file
\* resolving, completes, and its text is the source with the directive replaced
\* by the lines between the markers of X
C5_IncludeSubYieldsBlock ==
    \A e \in flat.st.events :
        ( /\ e.kind = "sub"
          /\ e.line = Strip(diagram.src_file[2])
          /\ Exists(Resolved(SrcDir, e.target)) )
        => /\ flat.err = "none"
           /\ flat.text =
                  diagram.src_file[1]
                  \o Join(LinesBetween(Content(Resolved(SrcDir, e.target)), <<"X">>, FALSE))
                  \o diagram.src_file[3]

\* the target of an !include directive: what follows the keyword, trimmed, with
\* the light theme's file name replaced by the dark one's in the dark pass
TargetOf(e) ==
    LET arg == Strip(DropFirst(e.line, Len(KwInclude)))
    IN  IF e.dark THEN Replace(arg, theme_light, theme_dark) ELSE arg

\* C6: every !include whose target starts with neither a URL scheme nor "<" is
\* resolved to the file in the including file's folder when that exists,
\* otherwise to the file in the diagram root when that exists, and otherwise
\* the pass raises
C6_LocalBeforeRoot ==
    \A e \in flat.st.events :
        ( /\ e.kind \in {"include", "remote"}
          /\ ~StartsWith(TargetOf(e), Http)
          /\ ~StartsWith(TargetOf(e), <<"<">>) )
        => /\ e.kind = "include"
           /\ e.target = TargetOf(e)
           /\ e.used = IF Exists(PathOf(e.dir, TargetOf(e))) THEN "local"
                       ELSE IF Exists(PathOf(RootDir, TargetOf(e))) THEN "root"
                       ELSE "none"
           /\ (e.used = "none" => flat.err = "Exception")

\* C7: when every include line of a pass is an !includeurl or an !include of a
\* URL or a <library>, the flattened text is the source, character for
\* character, and no include file is read
C7_RemoteIncludesVerbatim ==
    ( /\ flat.err = "none"
      /\ flat.st.events /= {}
      /\ \A e \in flat.st.events : e.kind \in {"url", "remote"} )
    => /\ flat.text = Join(diagram.src_file)
       /\ flat.st.visited = {}

\* a line of one of the three include forms
WellFormedInclude(line) ==
    \/ MatchIncludeUrl(line)
    \/ MatchInclude(line)
    \/ /\ MatchIncludeSub(line)
       /\ Len(Split(Strip(DropFirst(line, Len(KwIncludeSub))), "!")) = 2

\* a line that starts with !include and has none of the three forms
MalformedInclude(line) == StartsWith(line, KwInclude) /\ ~WellFormedInclude(line)

\* the include files a pass flattened
FilesFlattened ==
    { PathOf(IF e.used = "local" THEN e.dir ELSE RootDir, e.target) :
        e \in { x \in flat.st.events : x.kind = "include" /\ x.used /= "none" } }

\* the lines of the diagram source and of the include files a pass flattened
LinesOfPass ==
    { diagram.src_file[n] : n \in 1..Len(diagram.src_file) }
    \cup UNION { { Content(p)[n] : n \in 1..Len(Content(p)) } : p \in FilesFlattened }

\* C8: a pass over a source or an include file that holds a malformed include
\* line raises, so that on_pre_build ends with the exception
C8_MalformedIncludeRaises ==
    ( /\ flat.err /= "idle"
      /\ \E line \in LinesOfPass : MalformedInclude(Strip(line)) )
    => /\ flat.err /= "none"
       /\ pc = "raised"

\* C9: the staleness decision of the dark variant uses the inc_time and the
\* src_time that the decision of the normal variant of the same diagram used
C9_SameTimesForBothVariants ==
    conv.variant = "dark" =>
        /\ conv.inc = conv.normalInc
        /\ conv.src = conv.normalSrc

\* C10: every character of the token _readFile stores is one of the 64
\* characters of plantuml_alphabet
C10_TokenInAlphabet ==
    \A n \in 1..Len(diagram.b64encoded) :
        \E m \in 1..Len(plantuml_alphabet) : plantuml_alphabet[m] = diagram.b64encoded[n]

\* C11: after every _convert call in local mode, returned or raised, none of
\* the temporary files and scratch directories it created is left on disk
C11_NoTemporaryLeft ==
    (conv.mode = "local") => (tmp.puml = 0 /\ tmp.dirs = 0)

\* C12: with theme_enabled false no dark flatten pass runs, no dark staleness
\* decision is taken and no _dark artifact is written
C12_DarkPassOnlyWhenThemeEnabled ==
    ~config.theme_enabled =>
        /\ pc \notin {"readDark", "convertDark"}
        /\ ~flat.dark
        /\ conv.variant /= "dark"
        /\ \A j \in DiagramIds : out[j].dark.mtime /= Now

\* the newest modification time of a set of include files, 0 for no file
MaxMtime(paths) ==
    IF paths = {} THEN 0
    ELSE CHOOSE m \in { Mtime(p) : p \in paths } : \A p \in paths : Mtime(p) <= m

\* C13: _build_mtimes sets inc_time to 0; no later step of the diagram lowers
\* it; after a flatten pass that completes it is the newest modification time
\* (0 for none) of the include files read so far in the passes of the diagram,
\* whatever the modification time of the source
C13_IncTimeIsRunningMaximum ==
    [][ /\ (pc = "mtimes" => diagram'.inc_time = 0)
        /\ (pc \in {"read", "convert", "readDark", "convertDark"}
                => diagram'.inc_time >= diagram.inc_time)
        /\ (pc = "read" /\ flat'.err = "none"
                => diagram'.inc_time = MaxMtime(flat'.st.visited))
        /\ (pc = "readDark" /\ flat'.err = "none"
                => diagram'.inc_time = MaxMtime(flat.st.visited \cup flat'.st.visited))
      ]_vars

\* the dark pass of a diagram completed after reading an include file newer
\* than those the normal pass read
C13_Witness ==
    /\ pc = "convertDark"
    /\ flat.dark
    /\ flat.err = "none"
    /\ conv.id = k
    /\ conv.normalInc > 0
    /\ diagram.inc_time > conv.normalInc

\* C14: an exception raised by a flatten pass or by _convert for diagram k
\* leaves on_pre_build; after it no step is taken, so that the dark variant of
\* diagram k (when the normal pass raised) and the diagrams after k are neither
\* flattened nor rendered and the artifacts of the diagrams before k stay as
\* they are
C14_FatalErrorHaltsBatch ==
    /\ [](flat.err \notin {"none", "idle"} => (pc = "raised" /\ err = flat.err))
    /\ []((conv.mode = "local" /\ conv.body = "none")
            => (pc = "raised" /\ err = "RuntimeError"))
    /\ [](err /= "none" => pc = "raised")
    /\ [](pc = "raised" =>
            /\ err /= "none"
            /\ \A j \in DiagramIds :
                   j > k => (out[j].normal.mtime /= Now /\ out[j].dark.mtime /= Now)
            /\ (~flat.dark => out[k].dark.mtime /= Now))
    /\ [][pc /= "raised"]_vars

\* the flatten pass of the second diagram raised after the first diagram was
\* rendered
C14_Witness ==
    /\ pc = "raised"
    /\ k > 1
    /\ out[k - 1].normal.mtime = Now
    /\ flat.err \notin {"none", "idle"}

\* the target of an !include line of a file, as TargetOf gives it for an event
IncludeTarget(line, dark) ==
    LET arg == Strip(DropFirst(Strip(line), Len(KwInclude)))
    IN  IF dark THEN Replace(arg, theme_light, theme_dark) ELSE arg

\* the local include files that the lines of a file in folder dir include
IncludedBy(lines, dir, dark) ==
    { Resolved(dir, IncludeTarget(lines[n], dark)) :
        n \in { m \in 1..Len(lines) :
                  /\ MatchInclude(Strip(lines[m]))
                  /\ ~StartsWith(IncludeTarget(lines[m], dark), Http)
                  /\ ~StartsWith(IncludeTarget(lines[m], dark), <<"<">>)
                  /\ Exists(Resolved(dir, IncludeTarget(lines[m], dark))) } }

\* the files that the files of a set include
Successors(paths, dark) == UNION { IncludedBy(Content(p), p.dir, dark) : p \in paths }

RECURSIVE Closure(_, _, _)
Closure(paths, dark, n) ==
    IF n = 0 THEN paths ELSE Closure(paths \cup Successors(paths, dark), dark, n - 1)

\* the files reachable from a set of files along !include lines
Reachable(paths, dark) == Closure(paths, dark, Cardinality(DOMAIN files))

\* the graph of local includes reachable from the diagram has a cycle
CyclicInclude(dark) ==
    \E p \in Reachable(IncludedBy(diagram.src_file, SrcDir, dark), dark) :
        p \in Reachable(Successors({p}, dark), dark)

====
